---- MODULE Spec2Model ----
(***************************************************************************)
(* Verification model of the NightyScripts plugin collection.              *)
(*                                                                         *)
(* The repository is a set of independent scripts; each one is modelled as *)
(* its own specification over the shared variables of this module:         *)
(*   SpecAES      nighty-scripts/aes_script.py                             *)
(*   SpecAFK      nighty-scripts/afk_script.py and afk_scriptV3.py         *)
(*   SpecDM       DmLogger.py                                              *)
(*   SpecSpeed    nighty-scripts/speed.py (config subcommand)              *)
(*   SpecWeather  nighty-scripts/weatherv2.py                              *)
(*   SpecPrivate  the commands that send an embed with private mode off    *)
(*   SpecForwarder nighty-scripts/ChannelForwarder.py                      *)
(* A specification leaves the variables of the other scripts unchanged.    *)
(***************************************************************************)
EXTENDS Integers, Sequences, FiniteSets, TLC

VARIABLES
    \* ---- aes_script.py
    aes_config,     \* the contents of aes_config.json
    aes_call,       \* arguments of the last multi_layer_encrypt call
    aes_package,    \* its result: the package, or the error raised
    aes_tampered,   \* whether package["data"] was altered after encryption
    aes_dpass,      \* password argument of the last multi_layer_decrypt call
    aes_result,     \* result of the last multi_layer_decrypt call
    aes_phase,      \* "idle" | "encrypted" | "decrypted"
    \* ---- afk_script.py / afk_scriptV3.py
    afk_version,    \* which of the two scripts is loaded: "v1" | "v3"
    afk_cfg,        \* the ping_afk_* keys (and prefix) of the host's config
    afk_cooldowns,  \* afk_cooldowns.json: user id -> time of the last reply
    afk_pings,      \* ping_tracker.json: channel id -> list of ping entries
    afk_handlers,   \* the ping_tracker coroutines started so far
    afk_replies,    \* AFK auto-replies delivered since AFK was last switched
                    \* on or the cooldown last set: <<user, time>>
    afk_own,        \* what afk_auto_disable did with the owner's last message
    afk_now,        \* the clock, in seconds
    afk_count,      \* <<events delivered, commands run>>
    \* DmLogger.py
    dm_cfg,         \* dm_logger_enabled and dm_webhook_url of the host config
    dm_console,     \* lines log_dm printed, with what it had read
    dm_posts,       \* webhook posts log_dm started
    dm_count,       \* <<events delivered, commands run>>
    \* speed.py
    st_cfg,         \* the four speedtest_* settings of the host config
    st_last,        \* the last `speedtest config` command and the settings before it
    \* weatherv2.py
    wx_location,    \* weather_script_default_location of the host config
    wx_cache,       \* weather_cache
    wx_tasks,       \* update_weather_cache coroutines: the loop's and a refresh's
    wx_now,         \* the clock, in minutes
    wx_read,        \* the last dynamic value handed to the host
    wx_count,       \* <<commands run, `weather set` commands among them>>
    \* the host's "private" setting (help_commands.py, speed.py, weatherv2.py, sysinfo.py)
    pv_private,     \* getConfigData().get("private")
    pv_calls,       \* the embed-sending command invocations started so far
    pv_before,      \* "private" before the first of the running invocations started
    \* ChannelForwarder.py
    fw_cfg,         \* the forwarder_* keys of the host's config
    fw_token,       \* bot.http.token
    fw_requests,    \* the requests sent through bot.http: who sent it, with which token
    fw_posted,      \* the source channel holds the messages with ids 1..fw_posted
    fw_task,        \* the monitor_channel coroutine (forwarder_task)
    fw_dest,        \* ids of the messages that reached the destination, in order of arrival
    fw_count        \* <<polls started, requests of other coroutines>>

aes_vars == <<aes_config, aes_call, aes_package, aes_tampered, aes_dpass,
              aes_result, aes_phase>>

afk_vars == <<afk_version, afk_cfg, afk_cooldowns, afk_pings, afk_handlers,
              afk_replies, afk_own, afk_now, afk_count>>

dm_vars == <<dm_cfg, dm_console, dm_posts, dm_count>>

st_vars == <<st_cfg, st_last>>

wx_vars == <<wx_location, wx_cache, wx_tasks, wx_now, wx_read, wx_count>>

pv_vars == <<pv_private, pv_calls, pv_before>>

fw_vars == <<fw_cfg, fw_token, fw_requests, fw_posted, fw_task, fw_dest, fw_count>>

vars == <<aes_vars, afk_vars, dm_vars, st_vars, wx_vars, pv_vars, fw_vars>>

\* each script leaves the state of the other scripts alone
AesFrame == UNCHANGED <<afk_vars, dm_vars, st_vars, wx_vars, pv_vars, fw_vars>>
AfkFrame == UNCHANGED <<aes_vars, dm_vars, st_vars, wx_vars, pv_vars, fw_vars>>
DmFrame == UNCHANGED <<aes_vars, afk_vars, st_vars, wx_vars, pv_vars, fw_vars>>
SpeedFrame == UNCHANGED <<aes_vars, afk_vars, dm_vars, wx_vars, pv_vars, fw_vars>>
WeatherFrame == UNCHANGED <<aes_vars, afk_vars, dm_vars, st_vars, pv_vars, fw_vars>>
PrivateFrame == UNCHANGED <<aes_vars, afk_vars, dm_vars, st_vars, wx_vars, fw_vars>>
ForwarderFrame == UNCHANGED <<aes_vars, afk_vars, dm_vars, st_vars, wx_vars, pv_vars>>

----------------------------------------------------------------------------
(* Bounds of the model *)

\* longest message (in code points) handed to multi_layer_encrypt
MaxMsgLen == 2
\* number of distinct outcomes of the random source (get_random_bytes)
NumSeeds == 2
\* on_message events delivered to the AFK listeners
MaxEvents == 3
\* last instant of the AFK clock
MaxTime == 2
\* AFK commands run by the owner
MaxCmds == 2

----------------------------------------------------------------------------
(* Generic helpers: Python slicing and optional values *)

Min(a, b) == IF a < b THEN a ELSE b
Max(a, b) == IF a > b THEN a ELSE b

\* s[a:b] of Python for 0 <= a, b (0-based, half open, clamped to the length)
Slice(s, a, b) ==
    LET lo == Min(a, Len(s))
        hi == Min(b, Len(s))
    IN  IF hi <= lo THEN <<>> ELSE SubSeq(s, lo + 1, hi)

\* s[a:]
SliceFrom(s, a) == Slice(s, a, Len(s))

\* s[:-n] and s[-n:] for n > 0
DropLast(s, n) == Slice(s, 0, Max(Len(s) - n, 0))
TakeLast(s, n) == Slice(s, Max(Len(s) - n, 0), Len(s))

\* Optional argument: None, or a value
NoneArg == [some |-> FALSE, val |-> <<>>]
Some(v) == [some |-> TRUE, val |-> v]
\* Python truthiness of an optional str: None and "" are both falsy
Truthy(p) == p.some /\ p.val # <<>>

Ok(v) == [ok |-> TRUE, val |-> v]
Err(e) == [ok |-> FALSE, val |-> e]

RECURSIVE SumSeq(_)
SumSeq(s) == IF s = <<>> THEN 0 ELSE Head(s) + SumSeq(Tail(s))

----------------------------------------------------------------------------
(* str.encode('utf-8') / bytes.decode('utf-8'); a str is a sequence of     *)
(* code points, bytes a sequence of 0..255                                 *)

Utf8One(cp) ==
    IF cp < 128 THEN <<cp>>
    ELSE IF cp < 2048 THEN <<192 + (cp \div 64), 128 + (cp % 64)>>
    ELSE IF cp < 65536 THEN
        <<224 + (cp \div 4096), 128 + ((cp \div 64) % 64), 128 + (cp % 64)>>
    ELSE <<240 + (cp \div 262144), 128 + ((cp \div 4096) % 64),
           128 + ((cp \div 64) % 64), 128 + (cp % 64)>>

RECURSIVE Utf8Encode(_)
Utf8Encode(s) == IF s = <<>> THEN <<>> ELSE Utf8One(Head(s)) \o Utf8Encode(Tail(s))

IsCont(b) == b >= 128 /\ b <= 191

\* strict decoding: a malformed, overlong, surrogate or out-of-range sequence
\* raises UnicodeDecodeError
RECURSIVE Utf8Decode(_)
Utf8Decode(b) ==
    IF b = <<>> THEN Ok(<<>>)
    ELSE
      LET b1 == b[1]
          n  == IF b1 < 128 THEN 1
                ELSE IF b1 >= 194 /\ b1 <= 223 THEN 2
                ELSE IF b1 >= 224 /\ b1 <= 239 THEN 3
                ELSE IF b1 >= 240 /\ b1 <= 244 THEN 4
                ELSE 0
      IN  IF n = 0 \/ Len(b) < n \/ \E i \in 2..n : ~IsCont(b[i])
          THEN Err("UnicodeDecodeError")
          ELSE
            LET cp == IF n = 1 THEN b1
                      ELSE IF n = 2 THEN (b1 - 192) * 64 + (b[2] - 128)
                      ELSE IF n = 3 THEN (b1 - 224) * 4096 + (b[2] - 128) * 64
                                         + (b[3] - 128)
                      ELSE (b1 - 240) * 262144 + (b[2] - 128) * 4096
                           + (b[3] - 128) * 64 + (b[4] - 128)
                bad == \/ (n = 3 /\ cp < 2048)
                       \/ (n = 3 /\ cp >= 55296 /\ cp <= 57343)
                       \/ (n = 4 /\ (cp < 65536 \/ cp > 1114111))
                rest == Utf8Decode(SliceFrom(b, n))
            IN  IF bad THEN Err("UnicodeDecodeError")
                ELSE IF ~rest.ok THEN rest
                ELSE Ok(<<cp>> \o rest.val)

----------------------------------------------------------------------------
(* base64.b64encode / base64.b64decode.  A base64 text is a sequence of    *)
(* alphabet indices 0..63; B64Pad stands for '='                           *)

B64Pad == 64

\* byte i of b, 0 beyond its end
ByteAt(b, i) == IF i <= Len(b) THEN b[i] ELSE 0

\* every 3 bytes give 4 characters; the last group is filled up with '='
B64Encode(b) ==
    [k \in 1..(4 * ((Len(b) + 2) \div 3)) |->
        LET g  == (k - 1) \div 4
            r  == (k - 1) % 4
            b1 == ByteAt(b, 3 * g + 1)
            b2 == ByteAt(b, 3 * g + 2)
            b3 == ByteAt(b, 3 * g + 3)
        IN  IF r = 0 THEN b1 \div 4
            ELSE IF r = 1 THEN (b1 % 4) * 16 + (b2 \div 16)
            ELSE IF r = 2 THEN
                (IF 3 * g + 2 > Len(b) THEN B64Pad ELSE (b2 % 16) * 4 + (b3 \div 64))
            ELSE (IF 3 * g + 3 > Len(b) THEN B64Pad ELSE b3 % 64)]

IsB64Char(c) == c >= 0 /\ c <= B64Pad

\* binascii.a2b_base64 without strict mode: characters outside the alphabet
\* are discarded, excess bits of the last character are ignored, decoding
\* stops at the pad that completes a quad (the first '=' after 3 characters
\* of a quad, the second after 2), and an incomplete quad raises
\* binascii.Error
B64Decode(t) ==
    LET f == SelectSeq(t, IsB64Char)
        Quad(i) == Cardinality({j \in 1..(i - 1) : f[j] # B64Pad}) % 4
        stops == {i \in 1..Len(f) :
                     /\ f[i] = B64Pad
                     /\ \/ Quad(i) = 3
                        \/ (Quad(i) = 2 /\ i > 1 /\ f[i - 1] = B64Pad)}
        stopped == stops # {}
        upto == IF stopped THEN (CHOOSE i \in stops : \A j \in stops : i <= j) - 1
                ELSE Len(f)
        d == SelectSeq(SubSeq(f, 1, upto), LAMBDA c : c # B64Pad)
        n == Len(d)
    IN  IF ~stopped /\ n % 4 # 0 THEN Err("binascii.Error")
        ELSE Ok([k \in 1..((n * 6) \div 8) |->
                    LET g == (k - 1) \div 3
                        r == (k - 1) % 3
                    IN  IF r = 0 THEN d[4 * g + 1] * 4 + (d[4 * g + 2] \div 16)
                        ELSE IF r = 1 THEN (d[4 * g + 2] % 16) * 16 + (d[4 * g + 3] \div 4)
                        ELSE (d[4 * g + 3] % 4) * 64 + d[4 * g + 4]])

----------------------------------------------------------------------------
(* zlib.compress / zlib.decompress (library): a header byte, the data as   *)
(* (count, byte) runs, and a checksum of the uncompressed data             *)

ZlibHeader == 120
ZlibChecksum(b) == (1 + SumSeq(b)) % 251

RECURSIVE ZlibRuns(_)
ZlibRuns(b) ==
    IF b = <<>> THEN <<>>
    ELSE
      LET n == IF Len(b) >= 2 /\ b[2] = b[1]
               THEN (IF Len(b) >= 3 /\ b[3] = b[1] THEN 3 ELSE 2)
               ELSE 1
      IN  <<n, b[1]>> \o ZlibRuns(SliceFrom(b, n))

ZlibCompress(b) == <<ZlibHeader>> \o ZlibRuns(b) \o <<ZlibChecksum(b)>>

RECURSIVE ZlibExpand(_)
ZlibExpand(r) ==
    IF r = <<>> THEN Ok(<<>>)
    ELSE IF Len(r) < 2 \/ r[1] < 1 \/ r[1] > 3 THEN Err("zlib.error")
    ELSE
      LET rest == ZlibExpand(SliceFrom(r, 2))
      IN  IF ~rest.ok THEN rest
          ELSE Ok([i \in 1..r[1] |-> r[2]] \o rest.val)

ZlibDecompress(c) ==
    IF Len(c) < 2 \/ c[1] # ZlibHeader THEN Err("zlib.error")
    ELSE
      LET body == ZlibExpand(Slice(c, 1, Len(c) - 1))
      IN  IF ~body.ok THEN body
          ELSE IF ZlibChecksum(body.val) # c[Len(c)] THEN Err("zlib.error")
          ELSE body

----------------------------------------------------------------------------
(* pycryptodome primitives (library), over bytes 0..255                    *)

\* get_random_bytes(n): the outcome is fixed by the seed drawn
RandomBytes(n, seed) == [i \in 1..n |-> (seed * 37 + i * 11) % 256]

\* a position-weighted sum of the bytes d[lo..hi]
RECURSIVE WeightedSum(_, _, _)
WeightedSum(d, lo, hi) ==
    IF lo > hi THEN 0
    ELSE IF lo = hi THEN (lo * lo + 3 * lo + 7) * (d[lo] + 1)
    ELSE LET mid == (lo + hi) \div 2
         IN  WeightedSum(d, lo, mid) + WeightedSum(d, mid + 1, hi)

\* SHA256.new(d).digest(): 32 bytes.  The digest carries a 24-bit number
\* computed from every byte and its position, so that inputs which differ in
\* one byte have different digests.
DigestLen == 32
HashModulus == 16777213
HashNum(d) == (101 * Len(d) + WeightedSum(d, 1, Len(d))) % HashModulus
Sha256(d) ==
    LET h == HashNum(d)
    IN  [j \in 1..DigestLen |->
            IF j = 1 THEN h % 256
            ELSE IF j = 2 THEN (h \div 256) % 256
            ELSE IF j = 3 THEN (h \div 65536) % 256
            ELSE ((h + j) * (2 * j + 1)) % 256]

\* HMAC.new(key, digestmod=SHA256).update(data).digest()
HmacSha256(key, data) == Sha256(key \o data)

\* PBKDF2(password, salt, 32, count=iterations, hmac_hash_module=SHA256)
PBKDF2(password, salt, iterations) ==
    Sha256(Utf8Encode(password) \o salt \o <<iterations % 256>>)

\* AES.new accepts 16, 24 and 32 byte keys only
AesKeyOk(key) == Len(key) \in {16, 24, 32}
AesBlockSize == 16

\* the keystream byte at position i: it depends on every byte of the key and
\* of the nonce
KeyStream(key, nonce, i) == HashNum(key \o nonce \o <<i % 256>>) % 256
StreamEnc(p, key, nonce) ==
    [i \in 1..Len(p) |-> (p[i] + KeyStream(key, nonce, i)) % 256]
StreamDec(c, key, nonce) ==
    [i \in 1..Len(c) |-> (c[i] - KeyStream(key, nonce, i)) % 256]

\* the 16-byte GCM tag over nonce and ciphertext
GcmTagLen == 16
GcmTag(key, nonce, c) == Slice(Sha256(key \o nonce \o c), 0, GcmTagLen)

\* Crypto.Util.Padding.pad / unpad (PKCS7)
Pad(p, bs) ==
    LET n == bs - (Len(p) % bs) IN p \o [i \in 1..n |-> n]
Unpad(p, bs) ==
    IF Len(p) = 0 \/ Len(p) % bs # 0 THEN Err("ValueError")
    ELSE
      LET n == p[Len(p)]
      IN  IF n < 1 \/ n > bs \/ \E i \in (Len(p) - n + 1)..Len(p) : p[i] # n
          THEN Err("ValueError")
          ELSE Ok(DropLast(p, n))

\* the block cipher's key material for byte j of a block
BlockKey(key, j) == HashNum(key \o <<j>>) % 256

\* CBC chaining: block i is enciphered after adding the previous cipher block
RECURSIVE CbcEnc(_, _, _)
CbcEnc(p, key, prev) ==
    IF p = <<>> THEN <<>>
    ELSE
      LET blk == [j \in 1..AesBlockSize |->
                     (p[j] + prev[j] + BlockKey(key, j)) % 256]
      IN  blk \o CbcEnc(SliceFrom(p, AesBlockSize), key, blk)

RECURSIVE CbcDec(_, _, _)
CbcDec(c, key, prev) ==
    IF c = <<>> THEN <<>>
    ELSE
      LET blk == Slice(c, 0, AesBlockSize)
          pl  == [j \in 1..AesBlockSize |->
                     (blk[j] - prev[j] - BlockKey(key, j)) % 256]
      IN  pl \o CbcDec(SliceFrom(c, AesBlockSize), key, blk)

----------------------------------------------------------------------------
(* Command text: a str typed by the user is a sequence of one-character    *)
(* strings                                                                 *)

Alphabet ==
    [upper |-> <<"A", "B", "C", "D", "E", "F", "G", "H", "I", "J", "K", "L", "M",
                 "N", "O", "P", "Q", "R", "S", "T", "U", "V", "W", "X", "Y", "Z">>,
     lower |-> <<"a", "b", "c", "d", "e", "f", "g", "h", "i", "j", "k", "l", "m",
                 "n", "o", "p", "q", "r", "s", "t", "u", "v", "w", "x", "y", "z">>]
LowerChar(c) ==
    IF \E i \in 1..26 : Alphabet.upper[i] = c
    THEN Alphabet.lower[CHOOSE i \in 1..26 : Alphabet.upper[i] = c]
    ELSE c
UpperChar(c) ==
    IF \E i \in 1..26 : Alphabet.lower[i] = c
    THEN Alphabet.upper[CHOOSE i \in 1..26 : Alphabet.lower[i] = c]
    ELSE c
\* str.lower() / str.upper()
Lower(s) == [i \in 1..Len(s) |-> LowerChar(s[i])]
Upper(s) == [i \in 1..Len(s) |-> UpperChar(s[i])]

Digits == <<"0", "1", "2", "3", "4", "5", "6", "7", "8", "9">>
DigitVal(c) == (CHOOSE d \in 1..10 : Digits[d] = c) - 1

RECURSIVE DigitsVal(_, _)
DigitsVal(s, acc) ==
    IF s = <<>> THEN acc ELSE DigitsVal(Tail(s), acc * 10 + DigitVal(Head(s)))

\* str.strip(): whitespace removed at both ends
Whitespace == {" ", "\t", "\n"}
Strip(s) ==
    LET kept == {i \in 1..Len(s) : s[i] \notin Whitespace}
    IN  IF kept = {} THEN <<>>
        ELSE SubSeq(s, CHOOSE i \in kept : \A j \in kept : i <= j,
                       CHOOSE i \in kept : \A j \in kept : i >= j)

\* int(s): surrounding whitespace is ignored; an optional sign followed by
\* decimal digits; anything else raises ValueError
ParseInt(s) ==
    LET t      == Strip(s)
        signed == t # <<>> /\ t[1] \in {"-", "+"}
        body   == IF signed THEN Tail(t) ELSE t
    IN  IF body = <<>> \/ \E i \in 1..Len(body) : \A d \in 1..10 : Digits[d] # body[i]
        THEN Err("ValueError")
        ELSE Ok(IF signed /\ t[1] = "-" THEN 0 - DigitsVal(body, 0)
                ELSE DigitsVal(body, 0))

----------------------------------------------------------------------------
(* aes_script.py: the cipher wrappers                                      *)

\* nonce and IV lengths pycryptodome draws when none is given
GcmNonceLen == 16
CbcIvLen == 16
CtrNonceLen == 8

encrypt_aes_gcm(plaintext, key, seed) ==
    IF ~AesKeyOk(key) THEN Err("ValueError")
    ELSE
      LET nonce == RandomBytes(GcmNonceLen, seed)
          ciphertext == StreamEnc(plaintext, key, nonce)
          tag == GcmTag(key, nonce, ciphertext)
      IN  Ok(nonce \o tag \o ciphertext)

decrypt_aes_gcm(ciphertext_with_nonce, key) ==
    LET nonce == Slice(ciphertext_with_nonce, 0, 16)
        tag == Slice(ciphertext_with_nonce, 16, 32)
        ciphertext == SliceFrom(ciphertext_with_nonce, 32)
    IN  IF ~AesKeyOk(key) \/ nonce = <<>> THEN Err("ValueError")
        ELSE IF GcmTag(key, nonce, ciphertext) # tag THEN Err("ValueError")
        ELSE Ok(StreamDec(ciphertext, key, nonce))

encrypt_aes_cbc(plaintext, key, seed) ==
    IF ~AesKeyOk(key) THEN Err("ValueError")
    ELSE
      LET iv == RandomBytes(CbcIvLen, seed)
          padded_data == Pad(plaintext, AesBlockSize)
      IN  Ok(iv \o CbcEnc(padded_data, key, iv))

decrypt_aes_cbc(ciphertext_with_iv, key) ==
    LET iv == Slice(ciphertext_with_iv, 0, 16)
        ciphertext == SliceFrom(ciphertext_with_iv, 16)
    IN  IF ~AesKeyOk(key) \/ Len(iv) # AesBlockSize
           \/ Len(ciphertext) % AesBlockSize # 0
        THEN Err("ValueError")
        ELSE Unpad(CbcDec(ciphertext, key, iv), AesBlockSize)

encrypt_aes_ctr(plaintext, key, seed) ==
    IF ~AesKeyOk(key) THEN Err("ValueError")
    ELSE
      LET nonce == RandomBytes(CtrNonceLen, seed)
      IN  Ok(nonce \o StreamEnc(plaintext, key, nonce))

\* a variant that takes the nonce to be as long as the GCM one
decrypt_aes_ctr_long_nonce(ciphertext_with_nonce, key) ==
    LET nonce == Slice(ciphertext_with_nonce, 0, 16)
        ciphertext == SliceFrom(ciphertext_with_nonce, 16)
    IN  IF ~AesKeyOk(key) THEN Err("ValueError")
        ELSE Ok(StreamDec(ciphertext, key, nonce))

decrypt_aes_ctr(ciphertext_with_nonce, key) ==
    LET nonce == Slice(ciphertext_with_nonce, 0, 8)
        ciphertext == SliceFrom(ciphertext_with_nonce, 8)
    IN  IF ~AesKeyOk(key) THEN Err("ValueError")
        ELSE Ok(StreamDec(ciphertext, key, nonce))

add_hmac_protection(data, key) == data \o HmacSha256(key, data)

verify_hmac_protection(data_with_hmac, key) ==
    LET data == DropLast(data_with_hmac, 32)
        received_hmac == TakeLast(data_with_hmac, 32)
        expected_hmac == HmacSha256(key, data)
    IN  IF received_hmac # expected_hmac THEN Err("ValueError") ELSE Ok(data)

\* b"hmac_salt"
HmacSalt == <<104, 109, 97, 99, 95, 115, 97, 108, 116>>

generate_secure_key(size_bits, seed) == RandomBytes(size_bits \div 8, seed)

----------------------------------------------------------------------------
(* aes_script.py: multi_layer_encrypt / multi_layer_decrypt                *)

GCM == <<"G", "C", "M">>
CBC == <<"C", "B", "C">>
CTR == <<"C", "T", "R">>
OFB == <<"O", "F", "B">>

\* load_config() on a fresh installation
default_config ==
    [default_mode |-> GCM, default_keysize |-> 256, pbkdf2_iterations |-> 100000,
     rsa_keysize |-> 2048, enable_compression |-> TRUE, enable_hmac |-> TRUE]

\* The JSON package is kept as the dict it serialises (without its timestamp);
\* seed fixes what the random source returns during the call.
multi_layer_encrypt(message, mode, key_size, password, config, seed) ==
    LET withpw == Truthy(password)
        salt == RandomBytes(32, seed + 2)
        encryption_key ==
            IF withpw THEN PBKDF2(password.val, salt, config.pbkdf2_iterations)
            ELSE generate_secure_key(key_size, seed)
        plaintext0 == Utf8Encode(message)
        plaintext == IF config.enable_compression THEN ZlibCompress(plaintext0)
                     ELSE plaintext0
        encrypted ==
            IF Upper(mode) = GCM THEN encrypt_aes_gcm(plaintext, encryption_key, seed + 1)
            ELSE IF Upper(mode) = CBC THEN encrypt_aes_cbc(plaintext, encryption_key, seed + 1)
            ELSE IF Upper(mode) = CTR THEN encrypt_aes_ctr(plaintext, encryption_key, seed + 1)
            ELSE Err("Unsupported encryption mode")
    IN  IF ~encrypted.ok THEN encrypted
        ELSE
          LET hmac_key == Sha256(encryption_key \o HmacSalt)
              encrypted_data ==
                  IF config.enable_hmac
                  THEN add_hmac_protection(encrypted.val, hmac_key)
                  ELSE encrypted.val
              package ==
                  [version |-> "1.0", mode |-> Upper(mode), key_size |-> key_size,
                   has_compression |-> config.enable_compression,
                   has_hmac |-> config.enable_hmac,
                   data |-> B64Encode(encrypted_data)]
          IN  Ok(IF withpw
                 THEN package @@ [salt |-> B64Encode(salt),
                                  iterations |-> config.pbkdf2_iterations]
                 ELSE package @@ [key |-> B64Encode(encryption_key)])

\* Every exception inside is re-raised as ValueError("Decryption failed: ...")
multi_layer_decrypt(package, password, key) ==
    LET failed == Err("Decryption failed")
        keyres ==
            IF "salt" \in DOMAIN package /\ Truthy(password) THEN
                LET salt == B64Decode(package.salt)
                IN  IF ~salt.ok THEN salt
                    ELSE Ok(PBKDF2(password.val, salt.val, package.iterations))
            ELSE IF "key" \in DOMAIN package THEN B64Decode(package.key)
            ELSE IF Truthy(key) THEN B64Decode(key.val)
            ELSE Err("No decryption key available")
        decoded == B64Decode(package.data)
    IN  IF ~keyres.ok \/ ~decoded.ok THEN failed
        ELSE
          LET encryption_key == keyres.val
              hmac_key == Sha256(encryption_key \o HmacSalt)
              verified == IF package.has_hmac
                          THEN verify_hmac_protection(decoded.val, hmac_key)
                          ELSE decoded
          IN  IF ~verified.ok THEN failed
              ELSE
                LET mode == package.mode
                    plain ==
                        IF mode = GCM THEN decrypt_aes_gcm(verified.val, encryption_key)
                        ELSE IF mode = CBC THEN decrypt_aes_cbc(verified.val, encryption_key)
                        ELSE IF mode = CTR THEN decrypt_aes_ctr(verified.val, encryption_key)
                        ELSE Err("Unsupported decryption mode")
                IN  IF ~plain.ok THEN failed
                    ELSE
                      LET unpacked == IF package.has_compression
                                      THEN ZlibDecompress(plain.val)
                                      ELSE plain
                      IN  IF ~unpacked.ok THEN failed
                          ELSE
                            LET text == Utf8Decode(unpacked.val)
                            IN  IF ~text.ok THEN failed ELSE text

----------------------------------------------------------------------------
(* aes_script.py: the commands, as steps of SpecAES                        *)

CodePoints == {65, 233}
RECURSIVE SeqsUpTo(_, _)
SeqsUpTo(S, n) ==
    IF n = 0 THEN {<<>>}
    ELSE LET shorter == SeqsUpTo(S, n - 1)
         IN  shorter \cup {Append(q, x) : q \in {r \in shorter : Len(r) = n - 1}, x \in S}

\* handle_encrypt refuses an empty message
Messages == SeqsUpTo(CodePoints, MaxMsgLen) \ {<<>>}
Modes == {GCM, CBC, CTR, OFB, <<"g", "c", "m">>}
KeySizes == {128, 192, 256}
\* --password given to encrypt, and to decrypt
EncPasswords == {NoneArg, Some(<<112>>)}
DecPasswords == {NoneArg, Some(<<112>>), Some(<<113>>)}
Seeds == 0..(NumSeeds - 1)

NoCall == [message |-> <<>>, mode |-> <<>>, key_size |-> 0, password |-> NoneArg]
NoResult == Err("none")

InitAES ==
    /\ aes_config = default_config
    /\ aes_call = NoCall
    /\ aes_package = NoResult
    /\ aes_tampered = FALSE
    /\ aes_dpass = NoneArg
    /\ aes_result = NoResult
    /\ aes_phase = "idle"

\* `aes config <setting> <value>`
handle_config(config, setting, value) ==
    IF setting \in {"pbkdf2_iterations", "default_keysize", "rsa_keysize"} THEN
        LET n == ParseInt(value)
        IN  IF ~n.ok THEN config ELSE [config EXCEPT ![setting] = n.val]
    ELSE IF setting \in {"enable_compression", "enable_hmac"} THEN
        [config EXCEPT ![setting] =
            (Lower(value) \in {<<"t", "r", "u", "e">>, <<"1">>,
                               <<"y", "e", "s">>, <<"o", "n">>})]
    ELSE [config EXCEPT ![setting] = value]

ConfigSettings == {"enable_compression", "enable_hmac"}
ConfigValues == {<<"O", "N">>, <<"o", "f", "f">>}

AesConfig(setting, value) ==
    /\ aes_phase = "idle"
    /\ aes_config' = handle_config(aes_config, setting, value)
    /\ UNCHANGED <<aes_call, aes_package, aes_tampered, aes_dpass, aes_result,
                   aes_phase>>
    /\ AesFrame

\* `aes encrypt <message> --mode .. --keysize .. [--password ..]`
AesEncrypt(message, mode, key_size, password, seed) ==
    /\ aes_phase = "idle"
    /\ aes_call' = [message |-> message, mode |-> mode, key_size |-> key_size,
                    password |-> password]
    /\ aes_package' = multi_layer_encrypt(message, mode, key_size, password,
                                          aes_config, seed)
    /\ aes_phase' = "encrypted"
    /\ UNCHANGED <<aes_config, aes_tampered, aes_dpass, aes_result>>
    /\ AesFrame

\* The encrypted data is altered on its way: one byte of the data that
\* package["data"] encodes (the first, the middle or the last one) has its
\* lowest bit flipped.
TamperIndices(d) == {1, (Len(d) + 1) \div 2, Len(d)} \ {0}
FlipByte(x) == IF x % 2 = 0 THEN x + 1 ELSE x - 1

AesTamper(i) ==
    /\ aes_phase = "encrypted"
    /\ aes_package.ok
    /\ ~aes_tampered
    /\ LET bytes == B64Decode(aes_package.val.data).val
       IN  /\ i \in TamperIndices(bytes)
           /\ aes_package' = Ok([aes_package.val EXCEPT
                  !.data = B64Encode([bytes EXCEPT ![i] = FlipByte(bytes[i])])])
    /\ aes_tampered' = TRUE
    /\ UNCHANGED <<aes_config, aes_call, aes_dpass, aes_result, aes_phase>>
    /\ AesFrame

\* `aes decrypt <package> [--password ..]`
AesDecrypt(password) ==
    /\ aes_phase = "encrypted"
    /\ aes_package.ok
    /\ aes_dpass' = password
    /\ aes_result' = multi_layer_decrypt(aes_package.val, password, NoneArg)
    /\ aes_phase' = "decrypted"
    /\ UNCHANGED <<aes_config, aes_call, aes_package, aes_tampered>>
    /\ AesFrame

\* the next command starts from the stored configuration
AesDone ==
    /\ aes_phase \in {"encrypted", "decrypted"}
    /\ aes_call' = NoCall
    /\ aes_package' = NoResult
    /\ aes_tampered' = FALSE
    /\ aes_dpass' = NoneArg
    /\ aes_result' = NoResult
    /\ aes_phase' = "idle"
    /\ UNCHANGED aes_config
    /\ AesFrame

\* no encrypted data is longer (nonce, tag, padded block, digest)
MaxDataLen == 16 + 16 + 16 + 32 + 4 * MaxMsgLen

NextAES ==
    \/ \E s \in ConfigSettings, v \in ConfigValues : AesConfig(s, v)
    \/ \E m \in Messages, md \in Modes, ks \in KeySizes, pw \in EncPasswords,
          sd \in Seeds : AesEncrypt(m, md, ks, pw, sd)
    \/ \E i \in 1..MaxDataLen : AesTamper(i)
    \/ \E pw \in DecPasswords : AesDecrypt(pw)
    \/ AesDone


----------------------------------------------------------------------------
(* Properties of aes_script.py (checked under SpecAES)                     *)

SupportedModes == {GCM, CBC, CTR}

\* C1: round trip.  Whenever a package made by multi_layer_encrypt for a
\* message m in mode GCM, CBC or CTR with a 128, 192 or 256 bit key, under any
\* setting of enable_compression and enable_hmac, is handed unaltered to
\* multi_layer_decrypt with the password given at encryption (or with none
\* if none was given), the result is m.
C1_RoundTrip ==
    (/\ aes_phase = "decrypted"
     /\ ~aes_tampered
     /\ Upper(aes_call.mode) \in SupportedModes
     /\ aes_call.key_size \in KeySizes
     /\ aes_dpass = aes_call.password)
    => (aes_result.ok /\ aes_result.val = aes_call.message)

\* a CTR package made with compression switched off has been decrypted back
\* to its two-character message, which holds a non-ASCII character
C1_Witness ==
    /\ aes_phase = "decrypted"
    /\ ~aes_tampered
    /\ aes_call.mode = CTR
    /\ aes_dpass = aes_call.password
    /\ ~aes_package.val.has_compression
    /\ aes_call.message = <<233, 65>>
    /\ aes_result.ok
    /\ aes_result.val = aes_call.message

\* C2: integrity.  A package whose 'data' was altered after encryption is
\* never decrypted to a plaintext: multi_layer_decrypt raises.
C2_TamperDetected ==
    (aes_phase = "decrypted" /\ aes_tampered) => ~aes_result.ok

\* C8: each of the mode names CBC, GCM, CTR and OFB yields an encrypted
\* package rather than an error.
DocumentedModes == {CBC, GCM, CTR, OFB}
C8_AllModesEncrypt ==
    (aes_phase = "encrypted" /\ Upper(aes_call.mode) \in DocumentedModes)
    => aes_package.ok

----------------------------------------------------------------------------
(* afk_script.py and afk_scriptV3.py: the listeners                        *)

Owner == "owner"
NoTime == -1

\* str.startswith
StartsWith(str, p) == Len(str) >= Len(p) /\ SubSeq(str, 1, Len(p)) = p

\* the defaults written when a key is missing from the host's config
afk_defaults ==
    [enabled |-> FALSE, message |-> <<"b", "r", "b">>, delay |-> 0,
     typing |-> TRUE, typing_length |-> 2, reply |-> TRUE, server |-> TRUE,
     cooldown |-> 60, prefix |-> <<".">>]

AfkUsers == {"u1", "b1"}
Channels == {"c_guild", "c_dm", "c_group"}

\* a message: a guild message, a DM (2 recipients) or a group chat
ChannelOf(m) == IF m.guild THEN "c_guild"
                ELSE IF m.recipients = 2 THEN "c_dm" ELSE "c_group"

\* ping_tracker, up to "if not bot_mentioned: return": is the message stored?
\* message.mentions holds the users mentioned by name, never @everyone/@here.
\* A variant that leaves out the check of author.bot:
ping_filter_no_bot_check(version, m) ==
    IF m.author = Owner THEN FALSE
    ELSE
      LET is_dm == ~m.guild /\ m.recipients = 2
          bot_mentioned == \E mention \in m.mentions : mention = Owner
      IN  IF version = "v3" THEN ~(~is_dm /\ ~bot_mentioned)
          ELSE bot_mentioned

ping_filter(version, m) ==
    IF m.author = Owner \/ m.bot THEN FALSE
    ELSE
      LET is_dm == ~m.guild /\ m.recipients = 2
          bot_mentioned == \E mention \in m.mentions : mention = Owner
      IN  IF version = "v3" THEN ~(~is_dm /\ ~bot_mentioned)
          ELSE bot_mentioned

\* Keep only last 50 pings per channel
PingLimit == 50
store_ping(pings, m, now) ==
    LET channel_id == ChannelOf(m)
        ping_entry == [timestamp |-> now, user_id |-> m.author, message_link |-> m]
        appended == Append(pings[channel_id], ping_entry)
    IN  [pings EXCEPT ![channel_id] =
            IF Len(appended) > PingLimit THEN TakeLast(appended, PingLimit)
            ELSE appended]

is_on_cooldown(user_id, cooldowns, cfg, now) ==
    /\ cooldowns[user_id] # NoTime
    /\ now < cooldowns[user_id] + cfg.cooldown

set_cooldown(user_id, cooldowns, now) == [cooldowns EXCEPT ![user_id] = now]

\* ping_tracker from "Handle AFK response" to the cooldown check: "go" when
\* a reply is to be sent, otherwise the check that ended the handler.
\* A variant that applies the server setting to every message:
afk_decision_server_everywhere(m, cfg, cooldowns, now) ==
    IF ~cfg.enabled THEN "off"
    ELSE IF ~cfg.server THEN "server"
    ELSE IF ~cfg.reply THEN "noreply"
    ELSE IF is_on_cooldown(m.author, cooldowns, cfg, now) THEN "cooldown"
    ELSE "go"

afk_decision(m, cfg, cooldowns, now) ==
    IF ~cfg.enabled THEN "off"
    ELSE IF m.guild /\ ~cfg.server THEN "server"
    ELSE IF ~cfg.reply THEN "noreply"
    ELSE IF is_on_cooldown(m.author, cooldowns, cfg, now) THEN "cooldown"
    ELSE "go"

\* afk_auto_disable: does the listener switch AFK off for this message?
\* A variant that spares replies in both scripts:
auto_disable_spares_replies(version, m, cfg) ==
    IF m.author # Owner THEN FALSE
    ELSE IF ~cfg.enabled THEN FALSE
    ELSE IF StartsWith(m.content, cfg.prefix) THEN FALSE
    ELSE IF StartsWith(m.content, <<">">>) THEN FALSE
    ELSE IF m.reference THEN FALSE
    ELSE IF version = "v3" /\ m.content = cfg.message THEN FALSE
    ELSE TRUE

auto_disable(version, m, cfg) ==
    IF m.author # Owner THEN FALSE
    ELSE IF ~cfg.enabled THEN FALSE
    ELSE IF StartsWith(m.content, cfg.prefix) THEN FALSE
    ELSE IF StartsWith(m.content, <<">">>) THEN FALSE
    ELSE IF version = "v3" /\ m.reference THEN FALSE
    ELSE IF version = "v3" /\ m.content = cfg.message THEN FALSE
    ELSE TRUE

\* save_cooldowns({})
NoCooldowns == [u \in AfkUsers |-> NoTime]

----------------------------------------------------------------------------
(* afk_script.py and afk_scriptV3.py: commands                             *)

SwitchOn == {<<"t", "r", "u", "e">>, <<"y", "e", "s">>, <<"o", "n">>, <<"1">>}
SwitchOff == {<<"f", "a", "l", "s", "e">>, <<"n", "o">>, <<"o", "f", "f">>, <<"0">>}

\* afkt / afkr / afks <enabled>: the stored value after the command
set_switch(current, enabled) ==
    IF enabled = <<>> THEN current
    ELSE LET enabled_lower == Lower(enabled)
         IN  IF enabled_lower \in SwitchOn THEN TRUE
             ELSE IF enabled_lower \in SwitchOff THEN FALSE
             ELSE current

\* afkd / afkc <seconds>: the stored value after the command
set_seconds(current, text) ==
    IF text = <<>> THEN current
    ELSE LET parsed == ParseInt(text)
         IN  IF ~parsed.ok THEN current
             ELSE IF parsed.val < 0 THEN current
             ELSE parsed.val

SwitchArgs == {<<"O", "f", "f">>, <<"1">>, <<"m", "a", "y", "b", "e">>}
SecondsArgs == {<<"1">>, <<"-", "1">>, <<"s", "o", "o", "n">>}

CommandRuns ==
    /\ afk_count[2] < MaxCmds
    /\ afk_count' = [afk_count EXCEPT ![2] = @ + 1]

toggle_afk ==
    /\ CommandRuns
    /\ LET new_status == ~afk_cfg.enabled
       IN  /\ afk_cfg' = [afk_cfg EXCEPT !.enabled = new_status]
           /\ afk_cooldowns' = IF new_status THEN afk_cooldowns ELSE NoCooldowns
    /\ afk_replies' = <<>>
    /\ UNCHANGED <<afk_version, afk_pings, afk_handlers, afk_own, afk_now>>
    /\ AfkFrame

set_afk_delay(delay) ==
    /\ CommandRuns
    /\ afk_cfg' = [afk_cfg EXCEPT !.delay = set_seconds(@, delay)]
    /\ UNCHANGED <<afk_version, afk_cooldowns, afk_pings, afk_handlers,
                   afk_replies, afk_own, afk_now>>
    /\ AfkFrame

set_afk_typing(enabled) ==
    /\ CommandRuns
    /\ afk_cfg' = [afk_cfg EXCEPT !.typing = set_switch(@, enabled)]
    /\ UNCHANGED <<afk_version, afk_cooldowns, afk_pings, afk_handlers,
                   afk_replies, afk_own, afk_now>>
    /\ AfkFrame

set_afk_reply(enabled) ==
    /\ CommandRuns
    /\ afk_cfg' = [afk_cfg EXCEPT !.reply = set_switch(@, enabled)]
    /\ UNCHANGED <<afk_version, afk_cooldowns, afk_pings, afk_handlers,
                   afk_replies, afk_own, afk_now>>
    /\ AfkFrame

set_afk_server(enabled) ==
    /\ CommandRuns
    /\ afk_cfg' = [afk_cfg EXCEPT !.server = set_switch(@, enabled)]
    /\ UNCHANGED <<afk_version, afk_cooldowns, afk_pings, afk_handlers,
                   afk_replies, afk_own, afk_now>>
    /\ AfkFrame

\* the log of replies restarts when the cooldown is given a new value
set_afk_cooldown(cooldown) ==
    /\ CommandRuns
    /\ afk_cfg' = [afk_cfg EXCEPT !.cooldown = set_seconds(@, cooldown)]
    /\ afk_replies' = IF afk_cfg'.cooldown = afk_cfg.cooldown THEN afk_replies
                      ELSE <<>>
    /\ UNCHANGED <<afk_version, afk_cooldowns, afk_pings, afk_handlers,
                   afk_own, afk_now>>
    /\ AfkFrame

----------------------------------------------------------------------------
(* afk_script.py and afk_scriptV3.py: on_message and the reply coroutine   *)

Hello == <<"h", "i">>

\* messages of other accounts: "b1" is a bot account
OthersMessages ==
    {m \in [author : AfkUsers, bot : BOOLEAN, mentions : {{}, {Owner}},
            guild : BOOLEAN, recipients : {0, 2, 3}, content : {Hello},
            reference : {FALSE}] : /\ m.bot = (m.author = "b1")
                                   /\ (m.guild <=> m.recipients = 0)}

\* messages typed by the owner: plain, a command, a quoted line, the AFK text
OwnMessages ==
    [author : {Owner}, bot : {FALSE}, mentions : {{}}, guild : {TRUE},
     recipients : {0}, reference : BOOLEAN,
     content : {Hello, <<".", "p">>, <<">", "o", "k">>, afk_defaults.message}]

\* the sleeps of ping_tracker after its checks: where the coroutine waits next
after_checks(cfg, now) ==
    IF cfg.delay > 0 THEN [pc |-> "delay", wake |-> now + cfg.delay]
    ELSE IF cfg.typing THEN [pc |-> "typing", wake |-> now + cfg.typing_length]
    ELSE [pc |-> "send", wake |-> now]

after_delay(cfg, now) ==
    IF cfg.typing THEN [pc |-> "typing", wake |-> now + cfg.typing_length]
    ELSE [pc |-> "send", wake |-> now]

\* the text of message.reply
reply_text(version, cfg) ==
    IF version = "v3" THEN cfg.message ELSE <<">", " ">> \o cfg.message

\* the owner's own reply, as on_message sees it
reply_echo(version, cfg, m) ==
    [author |-> Owner, bot |-> FALSE, mentions |-> {}, guild |-> m.guild,
     recipients |-> m.recipients, content |-> reply_text(version, cfg),
     reference |-> TRUE]

\* on_message: both listeners see the message
on_message(m) ==
    /\ afk_count[1] < MaxEvents
    /\ afk_count' = [afk_count EXCEPT ![1] = @ + 1]
    /\ LET tracked == ping_filter(afk_version, m)
           decision == afk_decision(m, afk_cfg, afk_cooldowns, afk_now)
           next == IF decision = "go" THEN after_checks(afk_cfg, afk_now)
                   ELSE [pc |-> "returned", wake |-> afk_now]
           disable == auto_disable(afk_version, m, afk_cfg)
       IN  /\ afk_pings' = IF tracked THEN store_ping(afk_pings, m, afk_now)
                           ELSE afk_pings
           /\ afk_handlers' =
                IF tracked
                THEN Append(afk_handlers,
                        [m |-> m, at |-> afk_now, decision |-> decision,
                         seen |-> [enabled |-> afk_cfg.enabled,
                                   server |-> afk_cfg.server,
                                   reply |-> afk_cfg.reply,
                                   on_cooldown |-> is_on_cooldown(m.author,
                                       afk_cooldowns, afk_cfg, afk_now)],
                         pc |-> next.pc, wake |-> next.wake])
                ELSE afk_handlers
           /\ afk_cfg' = IF disable THEN [afk_cfg EXCEPT !.enabled = FALSE]
                         ELSE afk_cfg
           /\ afk_cooldowns' = IF disable THEN NoCooldowns ELSE afk_cooldowns
           /\ afk_replies' = IF disable THEN <<>> ELSE afk_replies
           /\ afk_own' = IF m.author = Owner
                         THEN <<[m |-> m, before |-> afk_cfg.enabled,
                                 after |-> afk_cfg'.enabled]>>
                         ELSE afk_own
    /\ UNCHANGED <<afk_version, afk_now>>
    /\ AfkFrame

\* asyncio.sleep(delay) returns
delay_done(i) ==
    /\ i \in DOMAIN afk_handlers
    /\ afk_handlers[i].pc = "delay"
    /\ afk_handlers[i].wake <= afk_now
    /\ LET next == after_delay(afk_cfg, afk_now)
       IN  afk_handlers' = [afk_handlers EXCEPT ![i].pc = next.pc,
                                                ![i].wake = next.wake]
    /\ UNCHANGED <<afk_version, afk_cfg, afk_cooldowns, afk_pings,
                   afk_replies, afk_own, afk_now, afk_count>>
    /\ AfkFrame

\* asyncio.sleep(typing_length) returns
typing_done(i) ==
    /\ i \in DOMAIN afk_handlers
    /\ afk_handlers[i].pc = "typing"
    /\ afk_handlers[i].wake <= afk_now
    /\ afk_handlers' = [afk_handlers EXCEPT ![i].pc = "send"]
    /\ UNCHANGED <<afk_version, afk_cfg, afk_cooldowns, afk_pings,
                   afk_replies, afk_own, afk_now, afk_count>>
    /\ AfkFrame

\* message.reply returns (delivered) or raises; a delivered reply comes back
\* to afk_auto_disable as a message of the owner
reply_done(i, delivered) ==
    /\ i \in DOMAIN afk_handlers
    /\ afk_handlers[i].pc = "send"
    /\ LET m == afk_handlers[i].m
           echo == reply_echo(afk_version, afk_cfg, m)
           disable == delivered /\ auto_disable(afk_version, echo, afk_cfg)
       IN  /\ afk_handlers' = [afk_handlers EXCEPT
                  ![i].pc = IF delivered THEN "replied" ELSE "failed",
                  ![i].wake = afk_now]
           /\ afk_cfg' = IF disable THEN [afk_cfg EXCEPT !.enabled = FALSE]
                         ELSE afk_cfg
           /\ afk_cooldowns' =
                IF disable THEN NoCooldowns
                ELSE IF delivered
                     THEN set_cooldown(m.author, afk_cooldowns, afk_now)
                     ELSE afk_cooldowns
           /\ afk_replies' =
                IF disable THEN <<>>
                ELSE IF delivered
                     THEN Append(afk_replies, <<m.author, afk_now>>)
                     ELSE afk_replies
           /\ afk_own' = IF delivered
                         THEN <<[m |-> echo, before |-> afk_cfg.enabled,
                                 after |-> afk_cfg'.enabled]>>
                         ELSE afk_own
    /\ UNCHANGED <<afk_version, afk_pings, afk_now, afk_count>>
    /\ AfkFrame

\* a coroutine whose sleep is over runs before the clock moves on
Due(h) == \/ h.pc = "send"
          \/ h.pc \in {"delay", "typing"} /\ h.wake <= afk_now

Tick ==
    /\ afk_now < MaxTime
    /\ \A i \in DOMAIN afk_handlers : ~Due(afk_handlers[i])
    /\ afk_now' = afk_now + 1
    /\ UNCHANGED <<afk_version, afk_cfg, afk_cooldowns, afk_pings,
                   afk_handlers, afk_replies, afk_own, afk_count>>
    /\ AfkFrame

InitAFK ==
    /\ afk_version \in {"v1", "v3"}
    /\ afk_cfg = afk_defaults
    /\ afk_cooldowns = NoCooldowns
    /\ afk_pings = [c \in Channels |-> <<>>]
    /\ afk_handlers = <<>>
    /\ afk_replies = <<>>
    /\ afk_own = <<>>
    /\ afk_now = 0
    /\ afk_count = <<0, 0>>

\* the AFK script loaded and left alone
IdleAFK ==
    /\ afk_version = "v1"
    /\ afk_cfg = afk_defaults
    /\ afk_cooldowns = NoCooldowns
    /\ afk_pings = [c \in Channels |-> <<>>]
    /\ afk_handlers = <<>>
    /\ afk_replies = <<>>
    /\ afk_own = <<>>
    /\ afk_now = 0
    /\ afk_count = <<0, 0>>

NextAFK ==
    \/ \E m \in OthersMessages \cup OwnMessages : on_message(m)
    \/ \E i \in 1..MaxEvents : delay_done(i)
    \/ \E i \in 1..MaxEvents : typing_done(i)
    \/ \E i \in 1..MaxEvents, delivered \in BOOLEAN : reply_done(i, delivered)
    \/ Tick
    \/ toggle_afk
    \/ \E a \in SecondsArgs : set_afk_delay(a)
    \/ \E a \in SwitchArgs : set_afk_typing(a)
    \/ \E a \in SwitchArgs : set_afk_reply(a)
    \/ \E a \in SwitchArgs : set_afk_server(a)
    \/ \E a \in SecondsArgs : set_afk_cooldown(a)

----------------------------------------------------------------------------
(* Properties of the AFK scripts                                           *)

C3_Spared(m) ==
    \/ StartsWith(m.content, afk_cfg.prefix)
    \/ StartsWith(m.content, <<">">>)
    \/ afk_version = "v3" /\ (m.reference \/ m.content = afk_cfg.message)

C4_CooldownRespected ==
    \A i, j \in DOMAIN afk_replies :
        (i < j /\ afk_replies[i][1] = afk_replies[j][1])
            => afk_replies[j][2] - afk_replies[i][2] >= afk_cfg.cooldown

C5_Direct(m) ==
    /\ m.author # Owner
    /\ ~m.bot
    /\ \/ Owner \in m.mentions
       \/ afk_version = "v3" /\ ~m.guild /\ m.recipients = 2

C6_ServerSettingSparesDMs ==
    \A i \in DOMAIN afk_handlers :
        LET h == afk_handlers[i]
        IN  (h.seen.enabled /\ h.seen.reply /\ ~h.seen.on_cooldown
                /\ ~h.seen.server)
            => IF h.m.guild THEN h.pc = "returned"
               ELSE h.pc \in {"delay", "typing", "send", "replied", "failed"}

C6_Witness ==
    /\ \E i \in DOMAIN afk_handlers :
            /\ ~afk_handlers[i].seen.server
            /\ afk_handlers[i].seen.enabled
            /\ ~afk_handlers[i].m.guild
            /\ afk_handlers[i].pc = "replied"
    /\ \E i \in DOMAIN afk_handlers :
            /\ ~afk_handlers[i].seen.server
            /\ afk_handlers[i].seen.enabled
            /\ afk_handlers[i].m.guild
            /\ afk_handlers[i].pc = "returned"

----------------------------------------------------------------------------
(* DmLogger.py                                                             *)

\* the two prefixes set_dm_webhook accepts
WebhookPrefixes ==
    {<<"h", "t", "t", "p", "s", ":", "/", "/", "d", "i", "s", "c",
           "o", "r", "d", ".", "c", "o", "m", "/", "a", "p", "i", "/",
           "w", "e", "b", "h", "o", "o", "k", "s", "/">>,
     <<"h", "t", "t", "p", "s", ":", "/", "/", "d", "i", "s", "c",
           "o", "r", "d", "a", "p", "p", ".", "c", "o", "m", "/", "a",
           "p", "i", "/", "w", "e", "b", "h", "o", "o", "k", "s", "/">>}

\* `setdmwebhook <webhook_url>`: the stored URL after the command
set_webhook_url(current, webhook_url) ==
    IF webhook_url = <<>> THEN current
    ELSE IF \E p \in WebhookPrefixes : StartsWith(webhook_url, p)
         THEN Strip(webhook_url)
         ELSE current

\* log_dm up to the console line: is the message logged?
\* A variant that leaves out the check of author.bot:
log_dm_filter_no_bot_check(message, cfg) ==
    IF message.guild THEN FALSE
    ELSE IF message.author = Owner THEN FALSE
    ELSE cfg.dm_logger_enabled

log_dm_filter(message, cfg) ==
    IF message.guild THEN FALSE
    ELSE IF message.author = Owner \/ message.bot THEN FALSE
    ELSE cfg.dm_logger_enabled

DmMessages ==
    {m \in [author : {Owner, "u1", "b1"}, bot : BOOLEAN, guild : BOOLEAN,
            clean_content : {Hello, <<>>}] : m.bot = (m.author = "b1")}

WebhookArgs ==
    {p \o <<"1", " ">> : p \in WebhookPrefixes}
        \cup {<<"h", "t", "t", "p", ":", "/", "/", "x">>}

\* on_message
log_dm(message) ==
    /\ dm_count[1] < MaxEvents
    /\ dm_count' = [dm_count EXCEPT ![1] = @ + 1]
    /\ LET logged == log_dm_filter(message, dm_cfg)
           webhook_url == dm_cfg.dm_webhook_url
           line == [message |-> message,
                    enabled |-> dm_cfg.dm_logger_enabled]
       IN  /\ dm_console' = IF logged THEN Append(dm_console, line)
                            ELSE dm_console
           /\ dm_posts' = IF logged /\ webhook_url # <<>>
                          THEN Append(dm_posts,
                                  [message |-> message,
                                   enabled |-> dm_cfg.dm_logger_enabled,
                                   url |-> webhook_url, pc |-> "sending"])
                          ELSE dm_posts
    /\ UNCHANGED dm_cfg
    /\ DmFrame

\* send_webhook_message returns in its thread: posted, or an error logged
webhook_done(i, posted) ==
    /\ i \in DOMAIN dm_posts
    /\ dm_posts[i].pc = "sending"
    /\ dm_posts' = [dm_posts EXCEPT
            ![i].pc = IF posted THEN "posted" ELSE "failed"]
    /\ UNCHANGED <<dm_cfg, dm_console, dm_count>>
    /\ DmFrame

set_dm_webhook(webhook_url) ==
    /\ dm_count[2] < MaxCmds
    /\ dm_count' = [dm_count EXCEPT ![2] = @ + 1]
    /\ dm_cfg' = [dm_cfg EXCEPT
            !.dm_webhook_url = set_webhook_url(@, webhook_url)]
    /\ UNCHANGED <<dm_console, dm_posts>>
    /\ DmFrame

toggle_dm_logging ==
    /\ dm_count[2] < MaxCmds
    /\ dm_count' = [dm_count EXCEPT ![2] = @ + 1]
    /\ dm_cfg' = [dm_cfg EXCEPT !.dm_logger_enabled = ~@]
    /\ UNCHANGED <<dm_console, dm_posts>>
    /\ DmFrame

InitDM ==
    /\ dm_cfg = [dm_logger_enabled |-> TRUE, dm_webhook_url |-> <<>>]
    /\ dm_console = <<>>
    /\ dm_posts = <<>>
    /\ dm_count = <<0, 0>>

NextDM ==
    \/ \E m \in DmMessages : log_dm(m)
    \/ \E i \in 1..MaxEvents, posted \in BOOLEAN : webhook_done(i, posted)
    \/ \E u \in WebhookArgs : set_dm_webhook(u)
    \/ toggle_dm_logging

\* C7: log_dm prints a line or posts to the webhook only for a message
\* without a guild whose author is neither the owner nor a bot, handled while
\* dm_logger_enabled was true; a post also needs a non-empty dm_webhook_url
\* and comes with a console line.
C7_LogsOnlyOthersDMs ==
    /\ \A i \in DOMAIN dm_console :
        LET l == dm_console[i]
        IN  ~l.message.guild /\ l.message.author # Owner /\ ~l.message.bot
                /\ l.enabled
    /\ \A i \in DOMAIN dm_posts :
        LET q == dm_posts[i]
        IN  /\ ~q.message.guild /\ q.message.author # Owner /\ ~q.message.bot
            /\ q.enabled
            /\ q.url # <<>>
            /\ \E j \in DOMAIN dm_console : dm_console[j].message = q.message

C7_Witness ==
    /\ \E i \in DOMAIN dm_posts : dm_posts[i].pc = "posted"
    /\ ~dm_cfg.dm_logger_enabled
    /\ Len(dm_console) > Len(dm_posts)

----------------------------------------------------------------------------
(* speed.py: `speedtest config <setting> <value>`                          *)

config_defaults ==
    [speedtest_download_size_mb |-> 10, speedtest_upload_size_mb |-> 5,
     speedtest_connections |-> 3, speedtest_timeout |-> 15]

\* str.split(maxsplit=1): the first word and, if there is one, the rest
\* without its leading whitespace
SplitOnce(str) ==
    LET ink == {i \in 1..Len(str) : str[i] \notin Whitespace}
    IN  IF ink = {} THEN <<>>
        ELSE
          LET a == CHOOSE i \in ink : \A j \in ink : i <= j
              gaps == {i \in a..Len(str) : str[i] \in Whitespace}
          IN  IF gaps = {} THEN <<SubSeq(str, a, Len(str))>>
              ELSE
                LET b == CHOOSE i \in gaps : \A j \in gaps : i <= j
                    rest == {i \in ink : i > b}
                IN  IF rest = {} THEN <<SubSeq(str, a, b - 1)>>
                    ELSE <<SubSeq(str, a, b - 1),
                           SubSeq(str, CHOOSE i \in rest : \A j \in rest : i <= j,
                                  Len(str))>>

\* the config subcommand: the settings after `speedtest config <subargs>`
\* A variant that checks the upload size against the download range:
speedtest_config_upload_50(cfg, subargs) ==
    LET config_parts == SplitOnce(subargs)
    IN  IF subargs = <<>> \/ Len(config_parts) # 2 THEN cfg
        ELSE
          LET setting == Lower(config_parts[1])
              parsed == ParseInt(config_parts[2])
              value == parsed.val
          IN  IF ~parsed.ok THEN cfg
              ELSE IF setting \in {<<"s", "i", "z", "e">>, <<"d", "o", "w", "n", "l", "o", "a", "d">>}
              THEN IF 1 <= value /\ value <= 50
                   THEN [cfg EXCEPT !.speedtest_download_size_mb = value]
                   ELSE cfg
              ELSE IF setting = <<"u", "p", "l", "o", "a", "d">>
              THEN IF 1 <= value /\ value <= 50
                   THEN [cfg EXCEPT !.speedtest_upload_size_mb = value]
                   ELSE cfg
              ELSE IF setting \in {<<"c", "o", "n", "n", "e", "c", "t", "i", "o", "n", "s">>, <<"c", "o", "n", "n">>}
              THEN IF 1 <= value /\ value <= 5
                   THEN [cfg EXCEPT !.speedtest_connections = value]
                   ELSE cfg
              ELSE IF setting = <<"t", "i", "m", "e", "o", "u", "t">>
              THEN IF 10 <= value /\ value <= 60
                   THEN [cfg EXCEPT !.speedtest_timeout = value]
                   ELSE cfg
              ELSE cfg

speedtest_config(cfg, subargs) ==
    LET config_parts == SplitOnce(subargs)
    IN  IF subargs = <<>> \/ Len(config_parts) # 2 THEN cfg
        ELSE
          LET setting == Lower(config_parts[1])
              parsed == ParseInt(config_parts[2])
              value == parsed.val
          IN  IF ~parsed.ok THEN cfg
              ELSE IF setting \in {<<"s", "i", "z", "e">>, <<"d", "o", "w", "n", "l", "o", "a", "d">>}
              THEN IF 1 <= value /\ value <= 50
                   THEN [cfg EXCEPT !.speedtest_download_size_mb = value]
                   ELSE cfg
              ELSE IF setting = <<"u", "p", "l", "o", "a", "d">>
              THEN IF 1 <= value /\ value <= 25
                   THEN [cfg EXCEPT !.speedtest_upload_size_mb = value]
                   ELSE cfg
              ELSE IF setting \in {<<"c", "o", "n", "n", "e", "c", "t", "i", "o", "n", "s">>, <<"c", "o", "n", "n">>}
              THEN IF 1 <= value /\ value <= 5
                   THEN [cfg EXCEPT !.speedtest_connections = value]
                   ELSE cfg
              ELSE IF setting = <<"t", "i", "m", "e", "o", "u", "t">>
              THEN IF 10 <= value /\ value <= 60
                   THEN [cfg EXCEPT !.speedtest_timeout = value]
                   ELSE cfg
              ELSE cfg

SpeedtestArgs ==
    {
     <<"c", "o", "n", "f", "i", "g", " ", "s", "i", "z", "e", " ", "5", "0">>,
     <<"c", "o", "n", "f", "i", "g", " ", "S", "I", "Z", "E", " ", "5", "1">>,
     <<"c", "o", "n", "f", "i", "g", " ", "d", "o", "w", "n", "l", "o", "a", "d", " ", "7">>,
     <<"c", "o", "n", "f", "i", "g", " ", "s", "i", "z", "e", " ", "0">>,
     <<"c", "o", "n", "f", "i", "g", " ", "u", "p", "l", "o", "a", "d", " ", "2", "5">>,
     <<"c", "o", "n", "f", "i", "g", " ", "u", "p", "l", "o", "a", "d", " ", "2", "6">>,
     <<"c", "o", "n", "f", "i", "g", " ", "c", "o", "n", "n", " ", "5">>,
     <<"c", "o", "n", "f", "i", "g", " ", "c", "o", "n", "n", "e", "c", "t", "i", "o", "n", "s", " ", "6">>,
     <<"c", "o", "n", "f", "i", "g", " ", "C", "o", "n", "n", " ", "0">>,
     <<"c", "o", "n", "f", "i", "g", " ", "t", "i", "m", "e", "o", "u", "t", " ", "1", "0">>,
     <<"c", "o", "n", "f", "i", "g", " ", "t", "i", "m", "e", "o", "u", "t", " ", "9">>,
     <<"c", "o", "n", "f", "i", "g", " ", " ", "t", "i", "m", "e", "o", "u", "t", " ", "6", "0", " ">>,
     <<"c", "o", "n", "f", "i", "g", " ", "t", "i", "m", "e", "o", "u", "t", " ", "6", "1">>,
     <<"c", "o", "n", "f", "i", "g", " ", "t", "i", "m", "e", "o", "u", "t", " ", "-", "2", "0">>,
     <<"c", "o", "n", "f", "i", "g", " ", "t", "i", "m", "e", "o", "u", "t", " ", "t", "e", "n">>,
     <<"c", "o", "n", "f", "i", "g", " ", "s", "p", "e", "e", "d", " ", "5">>,
     <<"c", "o", "n", "f", "i", "g", " ", "s", "i", "z", "e">>,
     <<"c", "o", "n", "f", "i", "g", " ", "u", "p", "l", "o", "a", "d", " ", "2", " ", "4">>,
     <<"c", "o", "n", "f", "i", "g">>,
     <<"h", "i", "s", "t", "o", "r", "y">>}

\* `speedtest <args>`: only the config subcommand writes the four settings
speedtest_command(args) ==
    /\ LET parts == SplitOnce(Strip(args))
           subcommand == IF parts # <<>> THEN Lower(parts[1]) ELSE <<>>
           subargs == IF Len(parts) > 1 THEN parts[2] ELSE <<>>
       IN  /\ st_cfg' = IF subcommand = <<"c", "o", "n", "f", "i", "g">>
                        THEN speedtest_config(st_cfg, subargs)
                        ELSE st_cfg
           /\ st_last' = <<[subcommand |-> subcommand, subargs |-> subargs,
                            before |-> st_cfg]>>
    /\ SpeedFrame

InitSpeed ==
    /\ st_cfg = config_defaults
    /\ st_last = <<>>

NextSpeed == \E args \in SpeedtestArgs : speedtest_command(args)

\* the ranges the help text documents, by setting name
C9_Documented ==
    {<<<<"s", "i", "z", "e">>, 1, 50>>, <<<<"d", "o", "w", "n", "l", "o", "a", "d">>, 1, 50>>, <<<<"u", "p", "l", "o", "a", "d">>, 1, 25>>,
     <<<<"c", "o", "n", "n", "e", "c", "t", "i", "o", "n", "s">>, 1, 5>>, <<<<"c", "o", "n", "n">>, 1, 5>>, <<<<"t", "i", "m", "e", "o", "u", "t">>, 10, 60>>}

\* a `speedtest config` command that names a documented setting and gives it
\* an integer inside the documented range
C9_WellFormed(subargs) ==
    LET words == SplitOnce(subargs)
    IN  /\ Len(words) = 2
        /\ ParseInt(words[2]).ok
        /\ \E d \in C9_Documented :
              /\ Lower(words[1]) = d[1]
              /\ d[2] <= ParseInt(words[2]).val
              /\ ParseInt(words[2]).val <= d[3]

\* C9: from the defaults, after any sequence of `speedtest config` commands
\* the download size is in 1..50, the upload size in 1..25, the connections
\* in 1..5 and the timeout in 10..60; a command with an out-of-range value,
\* a non-integer value or an unknown setting leaves every setting unchanged.
C9_SettingsInRange ==
    /\ st_cfg.speedtest_download_size_mb \in 1..50
    /\ st_cfg.speedtest_upload_size_mb \in 1..25
    /\ st_cfg.speedtest_connections \in 1..5
    /\ st_cfg.speedtest_timeout \in 10..60
    /\ \A i \in DOMAIN st_last :
          (st_last[i].subcommand = <<"c", "o", "n", "f", "i", "g">>
              /\ ~C9_WellFormed(st_last[i].subargs))
          => st_cfg = st_last[i].before

C9_Witness ==
    /\ st_cfg.speedtest_download_size_mb = 50
    /\ st_cfg.speedtest_upload_size_mb = 25
    /\ st_cfg.speedtest_timeout = 60
    /\ st_last # <<>>
    /\ st_last[1].subargs = <<"C", "o", "n", "n", " ", "0">>
    /\ st_cfg = st_last[1].before

----------------------------------------------------------------------------
(* weatherv2.py: the cache behind the dynamic values                       *)

\* timedelta(minutes=15) and asyncio.sleep(900)
CacheMinutes == 15
LoopSeconds == 900

Atl == <<"A", "t", "l">>
Bos == <<"B", "o", "s">>

\* geocode_location: the full name Open-Meteo gives the place
full_name_of(location) == location \o <<",", " ", "U", "S">>

\* fetch_weather: current_weather readings a place can give, the
\* temperature in tenths of a degree
Readings(location) ==
    IF location = Atl
    THEN {[temperature |-> 725, weathercode |-> 0],
          [temperature |-> 885, weathercode |-> 61]}
    ELSE {[temperature |-> 305, weathercode |-> 4]}

\* round(): to the nearest integer, halves to the even one
Round(tenths) ==
    LET q == tenths \div 10
        r == tenths % 10
    IN  IF r < 5 THEN q
        ELSE IF r > 5 THEN q + 1
        ELSE IF q % 2 = 0 THEN q ELSE q + 1

\* the entries of weather_descriptions for the codes above
get_weather_description(weather_code) ==
    CASE weather_code = 0 -> "Clear Sky"
      [] weather_code = 61 -> "Light Rain"
      [] OTHER -> "Unknown"

get_temp_emoji(temp) ==
    IF temp >= 85 THEN "fire"
    ELSE IF temp >= 70 THEN "sun"
    ELSE IF temp >= 50 THEN "sun behind cloud"
    ELSE IF temp >= 32 THEN "cloud"
    ELSE "snowflake"

\* str.split(",")[0]
BeforeComma(str) ==
    LET commas == {i \in 1..Len(str) : str[i] = ","}
    IN  IF commas = {} THEN str
        ELSE SubSeq(str, 1, (CHOOSE i \in commas : \A j \in commas : i <= j) - 1)

weather_temp_value(cache) ==
    IF cache.data = <<>> THEN <<"N/A">>
    ELSE <<Round(cache.data[1].temperature), "F">>

weather_full_value(cache) ==
    IF cache.data = <<>> \/ cache.location_name = <<>>
    THEN <<"No weather data">>
    ELSE <<BeforeComma(cache.location_name),
           Round(cache.data[1].temperature), "F",
           get_weather_description(cache.data[1].weathercode)>>

weather_emoji_value(cache) ==
    IF cache.data = <<>> THEN <<"thermometer">>
    ELSE <<get_temp_emoji(Round(cache.data[1].temperature))>>

\* update_weather_cache up to its first await
update_begin(default_location, cache, now) ==
    IF default_location = <<>> THEN [pc |-> "done"]
    ELSE IF cache.last_update # <<>>
            /\ now - cache.last_update[1] < CacheMinutes
    THEN [pc |-> "done"]
    ELSE [pc |-> "geocode", location |-> default_location, now |-> now,
          full_name |-> <<>>]

WeatherTasks == {"loop", "refresh"}

\* where a coroutine goes when update_weather_cache returns
after_update(task, now) ==
    IF task = "loop"
    THEN [pc |-> "sleep", wake |-> now + LoopSeconds \div 60]
    ELSE [pc |-> "idle"]

WeatherArgs ==
    {
     <<"s", "e", "t", " ", "A", "t", "l">>,
     <<"S", "E", "T", " ", " ", "B", "o", "s", " ">>,
     <<"s", "e", "t", " ">>,
     <<"R", "e", "f", "r", "e", "s", "h">>,
     <<"B", "o", "s">>}

\* `weather <args>`: set, refresh, or a lookup that leaves the cache alone
weather_command(args) ==
    /\ wx_count[1] < MaxCmds
    /\ LET stripped == Strip(args)
           is_set == StartsWith(Lower(stripped), <<"s", "e", "t", " ">>)
           location == Strip(SliceFrom(stripped, 4))
           is_refresh == ~is_set /\ Lower(stripped) = <<"r", "e", "f", "r", "e", "s", "h">>
           cleared == [wx_cache EXCEPT !.last_update = <<>>]
           begun == update_begin(wx_location, cleared, wx_now)
       IN  /\ is_refresh => wx_tasks["refresh"].pc = "idle"
           /\ wx_location' = IF is_set /\ location # <<>> THEN location
                             ELSE wx_location
           /\ wx_cache' = IF (is_set /\ location # <<>>) \/ is_refresh
                          THEN cleared ELSE wx_cache
           /\ wx_tasks' = IF is_refresh /\ begun.pc # "done"
                          THEN [wx_tasks EXCEPT !["refresh"] = begun]
                          ELSE wx_tasks
           /\ wx_count' = <<wx_count[1] + 1,
                            IF is_set /\ location # <<>> THEN wx_count[2] + 1
                            ELSE wx_count[2]>>
    /\ UNCHANGED <<wx_now, wx_read>>
    /\ WeatherFrame

\* weather_update_loop wakes and calls update_weather_cache
loop_wake ==
    /\ wx_tasks["loop"].pc = "sleep"
    /\ wx_tasks["loop"].wake <= wx_now
    /\ LET begun == update_begin(wx_location, wx_cache, wx_now)
       IN  wx_tasks' = [wx_tasks EXCEPT !["loop"] =
                IF begun.pc = "done" THEN after_update("loop", wx_now)
                ELSE begun]
    /\ UNCHANGED <<wx_location, wx_cache, wx_now, wx_read, wx_count>>
    /\ WeatherFrame

\* geocode_location returns: a place, or None
geocode_done(task, found) ==
    /\ wx_tasks[task].pc = "geocode"
    /\ wx_tasks' = [wx_tasks EXCEPT ![task] =
            IF found
            THEN [wx_tasks[task] EXCEPT
                      !.pc = "fetch",
                      !.full_name = full_name_of(wx_tasks[task].location)]
            ELSE after_update(task, wx_now)]
    /\ UNCHANGED <<wx_location, wx_cache, wx_now, wx_read, wx_count>>
    /\ WeatherFrame

\* fetch_weather returns: data with current_weather, or None
fetch_done(task, data) ==
    /\ wx_tasks[task].pc = "fetch"
    /\ wx_cache' = IF data # <<>>
                   THEN [data |-> <<[fetched_for |-> wx_tasks[task].location,
                                     temperature |-> data[1].temperature,
                                     weathercode |-> data[1].weathercode]>>,
                         location_name |-> wx_tasks[task].full_name,
                         last_update |-> <<wx_tasks[task].now>>]
                   ELSE wx_cache
    /\ wx_tasks' = [wx_tasks EXCEPT ![task] = after_update(task, wx_now)]
    /\ UNCHANGED <<wx_location, wx_now, wx_read, wx_count>>
    /\ WeatherFrame

\* the host asks for {weather_temp}, {weather_full} or {weather_emoji}
read_value(name) ==
    /\ wx_read' = <<[name |-> name,
                     value |-> CASE name = "weather_temp" ->
                                        weather_temp_value(wx_cache)
                                 [] name = "weather_full" ->
                                        weather_full_value(wx_cache)
                                 [] OTHER -> weather_emoji_value(wx_cache),
                     fetched_for |-> IF wx_cache.data = <<>> THEN <<>>
                                     ELSE <<wx_cache.data[1].fetched_for>>,
                     default_location |-> wx_location,
                     after_set |-> wx_count[2] > 0]>>
    /\ UNCHANGED <<wx_location, wx_cache, wx_tasks, wx_now, wx_count>>
    /\ WeatherFrame

WeatherTick ==
    /\ wx_now < MaxTime * CacheMinutes
    /\ wx_now' = wx_now + CacheMinutes
    /\ UNCHANGED <<wx_location, wx_cache, wx_tasks, wx_read, wx_count>>
    /\ WeatherFrame

\* the default location is whatever an earlier session left in the config
InitWeather ==
    /\ wx_location \in {<<>>, Atl}
    /\ wx_cache = [data |-> <<>>, location_name |-> <<>>, last_update |-> <<>>]
    /\ wx_tasks = [t \in WeatherTasks |->
                     IF t = "loop" THEN [pc |-> "sleep", wake |-> 0]
                     ELSE [pc |-> "idle"]]
    /\ wx_now = 0
    /\ wx_read = <<>>
    /\ wx_count = <<0, 0>>

\* the weather script loaded and left alone
IdleWeather ==
    /\ wx_location = <<>>
    /\ wx_cache = [data |-> <<>>, location_name |-> <<>>, last_update |-> <<>>]
    /\ wx_tasks = [t \in WeatherTasks |->
                     IF t = "loop" THEN [pc |-> "sleep", wake |-> 0]
                     ELSE [pc |-> "idle"]]
    /\ wx_now = 0
    /\ wx_read = <<>>
    /\ wx_count = <<0, 0>>

NextWeather ==
    \/ \E args \in WeatherArgs : weather_command(args)
    \/ loop_wake
    \/ \E t \in WeatherTasks, found \in BOOLEAN : geocode_done(t, found)
    \/ \E t \in WeatherTasks :
          \E data \in {<<>>} \cup
                      (IF wx_tasks[t].pc = "fetch"
                       THEN {<<r>> : r \in Readings(wx_tasks[t].location)}
                       ELSE {}) :
              fetch_done(t, data)
    \/ \E name \in {"weather_temp", "weather_full", "weather_emoji"} :
          read_value(name)
    \/ WeatherTick

\* C10: once `weather set` has run, every value the dynamic-value functions
\* return comes from data fetched for the current default location, or is
\* the no-data placeholder.
C10_ValuesFollowLocation ==
    \A i \in DOMAIN wx_read :
        wx_read[i].after_set
            => \/ wx_read[i].fetched_for = <<>>
               \/ wx_read[i].fetched_for = <<wx_read[i].default_location>>

----------------------------------------------------------------------------
(* The "private" setting around an embed: send_help_embed, speedtest,      *)
(* weather and sysinfo switch it off, send, and put back what they read    *)

\* current_private = getConfigData().get("private"); updateConfigData("private",
\* False): the part of a command up to its first await.  `first` is the await
\* the command then waits in.
disable_private(cmd, first) ==
    /\ Len(pv_calls) < MaxEvents
    /\ pv_calls' = Append(pv_calls,
                          [cmd |-> cmd, pc |-> first, current_private |-> pv_private])
    /\ pv_private' = FALSE
    /\ pv_before' = IF \A i \in DOMAIN pv_calls : pv_calls[i].pc = "done"
                    THEN <<pv_private>>
                    ELSE pv_before
    /\ PrivateFrame

\* help_commands.py: the embed is the first thing awaited
send_help_embed == disable_private("help", "embed")

\* speed.py, quick mode: the embed is the first thing awaited
speedtest_embed == disable_private("speedtest", "embed")

\* weatherv2.py: the embed is awaited first, then status_msg.delete()
weather_embed == disable_private("weather", "embed")

\* sysinfo.py: the status message is sent first, then the embed, then
\* status_msg.delete()
system_info_command == disable_private("sysinfo", "status")

\* An await of invocation i returns (ok) or raises.  A failure inside the try
\* block leads to the except clause, which awaits a plain-text fallback; when
\* the try block or the except clause is over, the finally clause runs
\* updateConfigData("private", current_private).
await_done(i, ok) ==
    /\ i \in DOMAIN pv_calls
    /\ pv_calls[i].pc # "done"
    /\ LET c == pv_calls[i]
           next_pc ==
               CASE c.pc = "fallback" -> "done"
                 [] ~ok -> "fallback"
                 [] c.pc = "status" -> "embed"
                 [] c.pc = "embed" ->
                        IF c.cmd \in {"weather", "sysinfo"} THEN "cleanup" ELSE "done"
                 [] OTHER -> "done"
       IN  /\ pv_calls' = [pv_calls EXCEPT ![i].pc = next_pc]
           /\ pv_private' = IF next_pc = "done" THEN c.current_private ELSE pv_private
    /\ UNCHANGED pv_before
    /\ PrivateFrame

\* no command has run yet; "private" is one of `values`
InitPrivate(values) ==
    /\ pv_private \in values
    /\ pv_calls = <<>>
    /\ pv_before = <<>>

NextPrivate ==
    \/ send_help_embed
    \/ speedtest_embed
    \/ weather_embed
    \/ system_info_command
    \/ \E i \in 1..MaxEvents, ok \in BOOLEAN : await_done(i, ok)

\* C11: once every invocation that switched private mode off has finished,
\* whether its sends succeeded or failed and however the invocations were
\* interleaved, "private" is what it was before the first of them started.
C11_PrivateRestored ==
    (pv_calls # <<>> /\ \A i \in DOMAIN pv_calls : pv_calls[i].pc = "done")
        => pv_private = pv_before[1]

----------------------------------------------------------------------------
(* ChannelForwarder.py: poll a source channel with another account's token *)
(* and forward what is new to a webhook or a channel                       *)

\* Message ids are 1, 2, ... in the order of posting; 0 stands for the empty
\* last_message_id of a first run.

\* params = {"limit": 50}
FetchLimit == 50

\* forwarder_source_token, and the token bot.http was logged in with
SourceToken == "source"
OwnToken == "own"

\* what GET /channels/{id}/messages answers: newest first, at most FetchLimit
\* messages; with `after` the oldest ones that are newer than it, without it
\* the latest ones
fetch_response(after) ==
    LET lo == IF after = 0 THEN Max(1, fw_posted - FetchLimit + 1) ELSE after + 1
        hi == IF after = 0 THEN fw_posted ELSE Min(fw_posted, after + FetchLimit)
    IN  [i \in 1..Max(0, hi - lo + 1) |-> hi - i + 1]

\* reversed(messages)
Reverse(s) == [i \in 1..Len(s) |-> s[Len(s) - i + 1]]

NoTask == [pc |-> "none", last_message_id |-> 0, original_token |-> OwnToken,
           queue |-> <<>>, sent |-> <<>>]

\* fetch_messages up to its await: original_token = bot.http.token;
\* bot.http.token = token; bot.http.request(route) sends the GET with the
\* token the client holds at that moment.  `pc` is where monitor_channel waits.
fetch_messages(task, pc) ==
    /\ fw_task' = [task EXCEPT !.pc = pc, !.original_token = fw_token]
    /\ fw_token' = SourceToken
    /\ fw_requests' = fw_requests \cup {[by |-> "fetch_messages", token |-> SourceToken]}

\* start_monitoring: refused while forwarder_task is not done
start_monitoring ==
    /\ fw_task.pc \in {"none", "stopped"}
    /\ fw_cfg' = [fw_cfg EXCEPT !.is_running = TRUE]
    /\ fw_task' = [NoTask EXCEPT !.pc = "start"]
    /\ UNCHANGED <<fw_token, fw_requests, fw_posted, fw_dest, fw_count>>
    /\ ForwarderFrame

\* stop_monitoring: only the flag; the task ends at its next check
stop_monitoring ==
    /\ fw_cfg.is_running
    /\ fw_cfg' = [fw_cfg EXCEPT !.is_running = FALSE]
    /\ UNCHANGED <<fw_token, fw_requests, fw_posted, fw_task, fw_dest, fw_count>>
    /\ ForwarderFrame

\* monitor_channel, from its start to its first await: the settings are read
\* once; without a last_message_id the newest message is asked for
monitor_channel ==
    /\ fw_task.pc = "start"
    /\ LET task == [fw_task EXCEPT !.last_message_id = fw_cfg.last_message_id]
       IN  IF task.last_message_id = 0
           THEN fetch_messages(task, "initial_fetch")
           ELSE /\ fw_task' = [task EXCEPT !.pc = "loop"]
                /\ UNCHANGED <<fw_token, fw_requests>>
    /\ UNCHANGED <<fw_cfg, fw_posted, fw_dest, fw_count>>
    /\ ForwarderFrame

\* the head of the while loop: stop if is_running is off, else fetch what is
\* newer than last_message_id
loop_check ==
    /\ fw_task.pc = "loop"
    /\ IF ~fw_cfg.is_running
       THEN /\ fw_task' = [fw_task EXCEPT !.pc = "stopped"]
            /\ UNCHANGED <<fw_token, fw_requests, fw_count>>
       ELSE /\ fw_count[1] < MaxEvents
            /\ fetch_messages(fw_task, "fetch")
            /\ fw_count' = <<fw_count[1] + 1, fw_count[2]>>
    /\ UNCHANGED <<fw_cfg, fw_posted, fw_dest>>
    /\ ForwarderFrame

\* the request of fetch_messages returns (ok) or raises: finally puts
\* original_token back, the result is the response or None.  The first run
\* keeps the id of the newest message; a poll goes through reversed(messages).
request_done(ok) ==
    /\ fw_task.pc \in {"initial_fetch", "fetch"}
    /\ fw_token' = fw_task.original_token
    /\ LET messages == IF ok THEN fetch_response(fw_task.last_message_id) ELSE <<>>
       IN  IF fw_task.pc = "initial_fetch"
           THEN LET last == IF messages # <<>> THEN messages[1] ELSE 0
                IN  /\ fw_task' = [fw_task EXCEPT !.pc = "loop", !.last_message_id = last]
                    /\ fw_cfg' = IF messages # <<>>
                                 THEN [fw_cfg EXCEPT !.last_message_id = last]
                                 ELSE fw_cfg
           ELSE /\ fw_task' = [fw_task EXCEPT
                                   !.pc = IF messages # <<>> THEN "forward" ELSE "sleep",
                                   !.queue = Reverse(messages),
                                   !.sent = <<>>]
                /\ UNCHANGED fw_cfg
    /\ UNCHANGED <<fw_requests, fw_posted, fw_dest, fw_count>>
    /\ ForwarderFrame

\* what can become of one forward_message: "ok" the message arrived and True
\* was returned; "lost" it did not arrive and False was returned; "unacked"
\* it arrived but False was returned (send_webhook_sync returns
\* status_code == 204, and requests.post gives up after 10 seconds)
ForwardOutcomes(dest_type) ==
    IF dest_type = "webhook" THEN {"ok", "lost", "unacked"} ELSE {"ok", "lost"}

\* one turn of `for message in reversed(messages)`: forward_message, and on
\* success last_message_id = message["id"], written to the config too.  A
\* send to a channel is a request through bot.http.
forward_message(outcome) ==
    /\ fw_task.pc = "forward"
    /\ LET message == Head(fw_task.queue)
           rest == Tail(fw_task.queue)
           skip == message = fw_task.last_message_id
           success == ~skip /\ outcome = "ok"
           arrived == ~skip /\ outcome \in {"ok", "unacked"}
       IN  /\ outcome \in ForwardOutcomes(fw_cfg.dest_type)
           /\ fw_task' = [fw_task EXCEPT
                              !.pc = IF rest = <<>> THEN "sleep" ELSE "forward",
                              !.queue = rest,
                              !.sent = IF skip THEN @ ELSE Append(@, message),
                              !.last_message_id = IF success THEN message ELSE @]
           /\ fw_cfg' = IF success
                        THEN [fw_cfg EXCEPT !.last_message_id = message]
                        ELSE fw_cfg
           /\ fw_dest' = IF arrived THEN Append(fw_dest, message) ELSE fw_dest
           /\ fw_requests' = IF ~skip /\ fw_cfg.dest_type = "channel"
                             THEN fw_requests \cup
                                      {[by |-> "forward_message", token |-> fw_token]}
                             ELSE fw_requests
    /\ UNCHANGED <<fw_token, fw_posted, fw_count>>
    /\ ForwarderFrame

\* asyncio.sleep(2) is over
sleep_done ==
    /\ fw_task.pc = "sleep"
    /\ fw_task' = [fw_task EXCEPT !.pc = "loop"]
    /\ UNCHANGED <<fw_cfg, fw_token, fw_requests, fw_posted, fw_dest, fw_count>>
    /\ ForwarderFrame

\* another coroutine of the host (a command, a listener's reply) sends a
\* request through bot.http; the client signs it with the token it holds
host_request ==
    /\ fw_count[2] < MaxCmds
    /\ fw_requests' = fw_requests \cup {[by |-> "host", token |-> fw_token]}
    /\ fw_count' = <<fw_count[1], fw_count[2] + 1>>
    /\ UNCHANGED <<fw_cfg, fw_token, fw_posted, fw_task, fw_dest>>
    /\ ForwarderFrame

\* somebody posts a message in the source channel
post_message ==
    /\ fw_posted < MaxCmds
    /\ fw_posted' = fw_posted + 1
    /\ UNCHANGED <<fw_cfg, fw_token, fw_requests, fw_task, fw_dest, fw_count>>
    /\ ForwarderFrame

\* the config defaults written at load; the destination is one of `dest_types`
InitForwarder(dest_types) ==
    /\ fw_cfg \in [is_running : {FALSE}, last_message_id : {0}, dest_type : dest_types]
    /\ fw_token = OwnToken
    /\ fw_requests = {}
    /\ fw_posted = 0
    /\ fw_task = NoTask
    /\ fw_dest = <<>>
    /\ fw_count = <<0, 0>>

NextForwarder ==
    \/ start_monitoring
    \/ stop_monitoring
    \/ monitor_channel
    \/ loop_check
    \/ \E ok \in BOOLEAN : request_done(ok)
    \/ \E outcome \in {"ok", "lost", "unacked"} : forward_message(outcome)
    \/ sleep_done
    \/ host_request
    \/ post_message

\* C12: no request other than the forwarder's GET of the source channel's
\* messages is sent through bot.http with the configured source token,
\* whatever other coroutines send requests while the forwarder runs.
C12_SourceTokenOnlyForFetch ==
    \A r \in fw_requests : r.token = SourceToken => r.by = "fetch_messages"

\* within one poll the messages are handed to forward_message oldest first
C13_OldestFirstInPoll ==
    \A i, j \in DOMAIN fw_task.sent : i < j => fw_task.sent[i] < fw_task.sent[j]

\* C13: the messages are forwarded oldest first, so they reach the
\* destination in the relative order in which they were posted in the source
\* channel: a message never arrives after one that was posted later.
C13_ArriveInSourceOrder ==
    \A i, j \in DOMAIN fw_dest : i < j => fw_dest[i] <= fw_dest[j]

----------------------------------------------------------------------------
(* Specifications: one script at a time, the others loaded and idle        *)

\* every script is loaded; `script` is the one in use, the others stay idle
Loaded(script) ==
    /\ InitAES
    /\ IF script = "afk" THEN InitAFK ELSE IdleAFK
    /\ InitDM
    /\ InitSpeed
    /\ IF script = "weather" THEN InitWeather ELSE IdleWeather
    /\ InitPrivate(IF script = "private" THEN BOOLEAN ELSE {TRUE})
    /\ InitForwarder(IF script = "forwarder" THEN {"webhook", "channel"} ELSE {"webhook"})

SpecAES == Loaded("aes") /\ [][NextAES]_vars

SpecAFK == Loaded("afk") /\ [][NextAFK]_vars

SpecDM == Loaded("dm") /\ [][NextDM]_vars

SpecSpeed == Loaded("speed") /\ [][NextSpeed]_vars

SpecWeather == Loaded("weather") /\ [][NextWeather]_vars

SpecPrivate == Loaded("private") /\ [][NextPrivate]_vars

SpecForwarder == Loaded("forwarder") /\ [][NextForwarder]_vars

====
